---------------------------- MODULE Spec2Model ----------------------------
(***************************************************************************)
(* A model of baremetal_prs.py: the script that checks out a list of pull  *)
(* requests, collects metrics for each through gh, git, make and size,     *)
(* normalises the metrics against the batch maxima, scores every pull      *)
(* request and prints the scores in descending order.                      *)
(*                                                                         *)
(* Text is modelled as sequences of one-character strings, so that         *)
(* startswith, endswith, split, strip and int() are computed as Python     *)
(* computes them.  Python's true division yields floats; the model keeps   *)
(* the quotients as exact fractions <<numerator, denominator>> in lowest   *)
(* terms.  The title attribute of a pull request, which no computation     *)
(* reads, is left out.                                                     *)
(***************************************************************************)
EXTENDS Integers, Sequences, FiniteSets, TLC

(***************************************************************************)
(* Bounds of the model.                                                    *)
(***************************************************************************)
\* longest list of identifiers in the pulls file
MaxPulls == 2
\* largest commit, addition and deletion count the hosting CLI reports
MaxCount == 2
\* largest text or data figure the size tool reports
MaxBytes == 1

(***************************************************************************)
(* Text helpers.                                                           *)
(***************************************************************************)
Digits == <<"0", "1", "2", "3", "4", "5", "6", "7", "8", "9">>

IsDigit(c) == \E d \in 1..10 : Digits[d] = c

DigitVal(c) == (CHOOSE d \in 1..10 : Digits[d] = c) - 1

IsSpace(c) == c \in {" ", "\t", "\n"}

\* str.startswith
StartsWith(s, prefix) ==
    /\ Len(s) >= Len(prefix)
    /\ SubSeq(s, 1, Len(prefix)) = prefix

\* str.endswith
EndsWith(s, suffix) ==
    /\ Len(s) >= Len(suffix)
    /\ SubSeq(s, Len(s) - Len(suffix) + 1, Len(s)) = suffix

\* str.strip
RECURSIVE LStrip(_)
LStrip(s) == IF s # <<>> /\ IsSpace(Head(s)) THEN LStrip(Tail(s)) ELSE s

RECURSIVE RStrip(_)
RStrip(s) ==
    IF s # <<>> /\ IsSpace(s[Len(s)]) THEN RStrip(SubSeq(s, 1, Len(s) - 1)) ELSE s

Strip(s) == RStrip(LStrip(s))

\* str.split(sep) for a one-character separator
RECURSIVE SplitFrom(_, _, _, _)
SplitFrom(s, sep, i, piece) ==
    IF i > Len(s) THEN <<piece>>
    ELSE IF s[i] = sep THEN <<piece>> \o SplitFrom(s, sep, i + 1, <<>>)
    ELSE SplitFrom(s, sep, i + 1, Append(piece, s[i]))

Split(s, sep) == SplitFrom(s, sep, 1, <<>>)

\* ''.join(i for i in s if i.isdigit())
OnlyDigits(s) == SelectSeq(s, IsDigit)

\* the value of a string of digits
RECURSIVE DigitsValue(_)
DigitsValue(s) ==
    IF s = <<>> THEN 0
    ELSE 10 * DigitsValue(SubSeq(s, 1, Len(s) - 1)) + DigitVal(s[Len(s)])

\* int(s): surrounding white space is ignored, anything but digits raises
ParseInt(s) ==
    LET t == Strip(s) IN
    IF t # <<>> /\ \A i \in 1..Len(t) : IsDigit(t[i])
    THEN [ok |-> TRUE, val |-> DigitsValue(t)]
    ELSE [ok |-> FALSE, exc |-> "ValueError"]

\* the decimal text of a natural number, as the tools print it
RECURSIVE Dec(_)
Dec(n) == IF n < 10 THEN <<Digits[n + 1]>> ELSE Dec(n \div 10) \o <<Digits[(n % 10) + 1]>>

(***************************************************************************)
(* class Size                                                              *)
(***************************************************************************)
Size(text, data) == [text |-> text, data |-> data]

SizeTotal(s) == s.text + s.data

SizeGt(a, b) == a.text + a.data > b.text + b.data

SizeSub(a, b) == Size(a.text - b.text, a.data - b.data)

(***************************************************************************)
(* Quotients.  A fraction is <<n, d>> with d > 0 and gcd(n, d) = 1.         *)
(***************************************************************************)
Abs(n) == IF n < 0 THEN -n ELSE n

RECURSIVE GCD(_, _)
GCD(a, b) == IF b = 0 THEN a ELSE GCD(b, a % b)

Frac(n, d) ==
    LET g == GCD(Abs(n), Abs(d))
        s == IF d < 0 THEN -1 ELSE 1
    IN  <<(s * n) \div g, (s * d) \div g>>

FracOfInt(n) == <<n, 1>>

FracAdd(a, b) == Frac(a[1] * b[2] + b[1] * a[2], a[2] * b[2])

FracMul(a, b) == Frac(a[1] * b[1], a[2] * b[2])

\* a / b, b not zero
FracDiv(a, b) == Frac(a[1] * b[2], a[2] * b[1])

FracLt(a, b) == a[1] * b[2] < b[1] * a[2]

FracLe(a, b) == a[1] * b[2] <= b[1] * a[2]

FracIsZero(a) == a[1] = 0

ZeroDivision == "ZeroDivisionError"

(***************************************************************************)
(* Paths, identifiers and tool output used as inputs.                      *)
(***************************************************************************)
ChangeLogPrefix == <<"C", "h", "a", "n", "g", "e", "L", "o", "g">>

PathChangeLog == <<"C", "h", "a", "n", "g", "e", "L", "o", "g">>

PathChangeLogD ==
    <<"C", "h", "a", "n", "g", "e", "L", "o", "g", ".", "d", "/",
      "f", "o", "o", ".", "t", "x", "t">>

PathSrcXC == <<"s", "r", "c", "/", "x", ".", "c">>

PathDocsChangeLog ==
    <<"d", "o", "c", "s", "/", "C", "h", "a", "n", "g", "e", "L", "o", "g">>

PathMakefile == <<"M", "a", "k", "e", "f", "i", "l", "e">>

PathReadme == <<"R", "E", "A", "D", "M", "E", ".", "m", "d">>

Id1234 == <<"#", "1", "2", "3", "4">>

Id567 == <<"r", "5", "6", "7">>

IdHash1 == <<"#", "1">>

IdR2 == <<"r", "2">>

IdX1 == <<"x", "1">>

IdBlank == <<>>

IdSpaceHash == <<" ", "#", "3">>

\* the header line the size tool prints
SizeHeader ==
    <<" ", " ", " ", "t", "e", "x", "t", "\t", " ", " ", " ", "d", "a", "t", "a",
      "\t", " ", " ", " ", " ", "b", "s", "s", "\t", " ", " ", " ", " ", "d", "e",
      "c", "\t", " ", " ", " ", " ", "h", "e", "x", "\t", "f", "i", "l", "e", "n",
      "a", "m", "e", "\n">>

SizeTotalsTail ==
    <<"\t", "0", "\t", "0", "\t", "0", "\t", "(", "T", "O", "T", "A", "L", "S",
      ")", "\n">>

\* what size -t prints for an archive whose totals are text and data
SizeReportText(text, data) ==
    SizeHeader \o <<" ", " ">> \o Dec(text) \o <<"\t", " ", " ">> \o Dec(data)
        \o SizeTotalsTail

\* what size prints when the archive is missing
SizeNoFile ==
    <<"s", "i", "z", "e", ":", " ", "'", "l", "i", "b", "r", "a", "r", "y", "/",
      "l", "i", "b", "m", "b", "e", "d", "c", "r", "y", "p", "t", "o", ".", "a",
      "'", ":", " ", "N", "o", " ", "s", "u", "c", "h", " ", "f", "i", "l", "e",
      "\n">>

ShortstatHead ==
    <<" ", "1", " ", "f", "i", "l", "e", " ", "c", "h", "a", "n", "g", "e", "d">>

ShortstatIns == <<" ", "i", "n", "s", "e", "r", "t", "i", "o", "n", "s", "(", "+", ")">>

ShortstatDel == <<" ", "d", "e", "l", "e", "t", "i", "o", "n", "s", "(", "-", ")">>

\* git diff --shortstat output: insertions and deletions, either left out when 0
ShortstatText(ins, del) ==
    IF ins = 0 /\ del = 0 THEN <<>>
    ELSE ShortstatHead
         \o (IF ins > 0 THEN <<",", " ">> \o Dec(ins) \o ShortstatIns ELSE <<>>)
         \o (IF del > 0 THEN <<",", " ">> \o Dec(del) \o ShortstatDel ELSE <<>>)
         \o <<"\n">>


(***************************************************************************)
(* The inputs of a run.  A scenario names the part of the input space a    *)
(* run explores: every scenario varies one group of inputs and keeps the   *)
(* others at a default, so that the state space stays finite and small.    *)
(*   faults   tools exit non-zero or print text that cannot be parsed      *)
(*   commits  commit counts vary, and a pull request may change nothing    *)
(*   lines    addition and deletion counts vary                            *)
(*   files    changed-file lists and per-file diffs vary                   *)
(*   sizes    the library sizes of the pull requests vary                  *)
(*   ids      the identifiers of the pulls file vary                       *)
(*   example  the two pull requests A and B of the end-to-end example      *)
(***************************************************************************)
Scenarios == {"faults", "commits", "lines", "files", "sizes", "ids", "example"}

SeqsUpTo(S, n) == UNION {[1..m -> S] : m \in 1..n}

\* the lines of the pulls file: read().strip().split('\n') yields at least one
PullsFiles(sc) ==
    CASE sc = "ids" ->
           SeqsUpTo({Id1234, Id567, IdX1, IdBlank, IdSpaceHash}, MaxPulls)
      [] sc = "example" -> {<<Id567, Id1234>>}
      [] OTHER -> SeqsUpTo({IdHash1, IdR2}, MaxPulls)

\* exit codes of a tool whose failure the scenario explores
ExitCodes(sc) == IF sc = "faults" THEN {0, 1} ELSE {0}

FileLists ==
    { <<>>,
      <<PathSrcXC>>,
      <<PathChangeLog, PathChangeLogD, PathSrcXC>>,
      <<PathDocsChangeLog, PathSrcXC>> }

Metadata(commits, files, additions, deletions) ==
    [json |-> TRUE, commits |-> commits, changedFiles |-> Len(files),
     files |-> files, additions |-> additions, deletions |-> deletions]

\* output of gh pr view that json.loads rejects
NotJson == [json |-> FALSE]

DefaultMetadata == Metadata(1, <<PathSrcXC>>, 1, 1)

ExampleAFiles == <<PathChangeLog, PathChangeLogD, PathSrcXC>>

ExampleBFiles ==
    <<PathChangeLog, PathChangeLogD, PathSrcXC, PathDocsChangeLog, PathMakefile,
      PathReadme>>

\* what gh pr view prints for pull request `number`
ViewOutputs(sc, number) ==
    CASE sc = "faults" -> {DefaultMetadata, NotJson}
      [] sc = "commits" ->
           {Metadata(c, <<PathSrcXC>>, 1, 1) : c \in 0..MaxCount}
               \cup {Metadata(0, <<>>, 0, 0)}
      [] sc = "lines" ->
           {Metadata(1, <<PathSrcXC>>, a, d) : a \in 0..MaxCount, d \in 0..MaxCount}
      [] sc = "files" -> {Metadata(1, f, 1, 1) : f \in FileLists}
      [] sc = "example" ->
           IF number = Tail(Id567)
           THEN {Metadata(2, ExampleAFiles, 60, 40)}
           ELSE {Metadata(4, ExampleBFiles, 150, 50)}
      [] OTHER -> {DefaultMetadata}

\* what git diff --shortstat prints for file f
DiffOutputs(sc, f) ==
    CASE sc = "files" ->
           {ShortstatText(0, 0), ShortstatText(2, 1), ShortstatText(3, 0),
            ShortstatText(0, 4)}
      [] sc = "example" ->
           IF f \in {PathSrcXC, PathDocsChangeLog} THEN {ShortstatText(50, 7)}
           ELSE IF f = PathReadme THEN {ShortstatText(9, 0)}
           ELSE {ShortstatText(0, 0)}
      [] OTHER -> {ShortstatText(1, 1)}

\* what size -t prints for the archive built from the baseline
BaselineSizeOutputs(sc) ==
    CASE sc = "faults" -> {SizeReportText(3, 1), SizeNoFile}
      [] sc = "sizes" -> {SizeReportText(1, 0)}
      [] sc = "example" -> {SizeReportText(1000, 200)}
      [] OTHER -> {SizeReportText(3, 1)}

\* what size -t prints for the archive built from pull request `number`
PullSizeOutputs(sc, number) ==
    CASE sc = "faults" -> {SizeReportText(2, 1), SizeNoFile}
      [] sc = "sizes" ->
           {SizeReportText(t, d) : t \in 0..MaxBytes, d \in 0..MaxBytes}
      [] sc = "example" ->
           IF number = Tail(Id567)
           THEN {SizeReportText(900, 100)}
           ELSE {SizeReportText(1000, 100)}
      [] OTHER -> {SizeReportText(2, 1)}

(***************************************************************************)
(* The state.                                                              *)
(***************************************************************************)
VARIABLES
    scenario,           \* the part of the input space this run explores
    pulls,              \* the lines of the pulls file
    pulls_exists,       \* whether the pulls file can be opened
    pc,                 \* the call of main() that runs next
    exc,                \* the exception that ended the run, or "none"
    exit_status,        \* the exit status of the process, -1 while it runs
    mbedtls_2_16_size,  \* the global baseline Size
    mbedtls_pulls,      \* PullRequestGetter.mbedtls_pulls
    restricted_pulls,   \* PullRequestGetter.restricted_pulls
    maxima,             \* PullRequestGetter.max_*
    cur,                \* the position of the collection loops and their locals
    k,                  \* the position of the loop of normalise_metrics
    norm_log,           \* the norm_metrics dictionary built for each record
    stdout,             \* the score lines printed
    log                 \* every tool invocation made, with its exit code

vars ==
    <<scenario, pulls, pulls_exists, pc, exc, exit_status, mbedtls_2_16_size,
      mbedtls_pulls, restricted_pulls, maxima, cur, k, norm_log, stdout, log>>

\* the value of score before normalise_metrics sets it
None == <<"None">>

\* an object with attribute `name` set to v; Python creates the attribute on
\* its first assignment
SetAttr(obj, name, v) ==
    [a \in DOMAIN obj \cup {name} |-> IF a = name THEN v ELSE obj[a]]

HasAttr(obj, name) == name \in DOMAIN obj

NoCursor == [v |-> 0, step |-> "none", j |-> 0, total_add |-> 0, total_del |-> 0]

Init ==
    /\ scenario \in Scenarios
    /\ pulls \in PullsFiles(scenario)
    /\ pulls_exists = TRUE
    /\ pc = "check_args"
    /\ exc = "none"
    /\ exit_status = -1
    /\ mbedtls_2_16_size = Size(0, 0)
    /\ mbedtls_pulls = <<>>
    /\ restricted_pulls = <<>>
    /\ maxima = <<>>
    /\ cur = NoCursor
    /\ k = 0
    /\ norm_log = <<>>
    /\ stdout = <<>>
    /\ log = <<>>

\* an uncaught exception ends the process with a traceback and status 1
Raise(e) ==
    /\ pc' = "raised"
    /\ exc' = e
    /\ exit_status' = 1

Invocation(line, step, rc, file) == [line |-> line, step |-> step, rc |-> rc, file |-> file]

(***************************************************************************)
(* check_args                                                              *)
(***************************************************************************)
PathStates(sc) == IF sc = "faults" THEN {"repo", "missing", "not_git"} ELSE {"repo"}

CheckArgs ==
    /\ pc = "check_args"
    /\ \E txt \in (IF scenario = "faults" THEN BOOLEAN ELSE {TRUE}),
          exists \in (IF scenario = "faults" THEN BOOLEAN ELSE {TRUE}),
          mbedtls_path \in PathStates(scenario),
          restricted_path \in PathStates(scenario) :
            IF ~txt /\ ~exists
            THEN \* the message names `path` before the loop binds it
                 /\ Raise("UnboundLocalError")
                 /\ UNCHANGED pulls_exists
            ELSE IF mbedtls_path # "repo" \/ restricted_path # "repo"
            THEN /\ Raise("ValueError")
                 /\ UNCHANGED pulls_exists
            ELSE /\ pc' = "calculate_mbedtls_2_16_size"
                 /\ pulls_exists' = exists
                 /\ UNCHANGED <<exc, exit_status>>
    /\ UNCHANGED <<scenario, pulls, mbedtls_2_16_size, mbedtls_pulls,
                   restricted_pulls, maxima, cur, k, norm_log, stdout, log>>

(***************************************************************************)
(* get_baremetal_size and calculate_mbedtls_2_16_size                      *)
(***************************************************************************)
\* the build's exit code and the text of size -t, to a Size or an exception
GetBaremetalSize(rc_build, size_out) ==
    IF rc_build # 0 THEN [ok |-> FALSE, exc |-> "CalledProcessError"]
    ELSE LET lines == Split(size_out, "\n") IN
         IF Len(lines) < 2 THEN [ok |-> FALSE, exc |-> "IndexError"]
         ELSE LET totals == Split(lines[Len(lines) - 1], "\t")
                  text == ParseInt(totals[1])
              IN  IF ~text.ok THEN [ok |-> FALSE, exc |-> "ValueError"]
                  ELSE IF Len(totals) < 2 THEN [ok |-> FALSE, exc |-> "IndexError"]
                  ELSE LET data == ParseInt(totals[2]) IN
                       IF ~data.ok THEN [ok |-> FALSE, exc |-> "ValueError"]
                       ELSE [ok |-> TRUE, val |-> Size(text.val, data.val)]

CalculateBaseline ==
    /\ pc = "calculate_mbedtls_2_16_size"
    /\ \E rc_checkout \in ExitCodes(scenario),
          rc_build \in ExitCodes(scenario),
          rc_size \in ExitCodes(scenario),
          size_out \in BaselineSizeOutputs(scenario) :
            IF rc_checkout # 0
            THEN /\ Raise("CalledProcessError")
                 /\ log' = Append(log, Invocation(0, "checkout", rc_checkout, <<>>))
                 /\ UNCHANGED mbedtls_2_16_size
            ELSE LET size == GetBaremetalSize(rc_build, size_out)
                     ran == <<Invocation(0, "checkout", 0, <<>>),
                              Invocation(0, "build", rc_build, <<>>)>>
                            \o (IF rc_build = 0
                                THEN <<Invocation(0, "size", rc_size, <<>>)>>
                                ELSE <<>>)
                 IN  /\ log' = log \o ran
                     /\ IF size.ok
                        THEN /\ mbedtls_2_16_size' = size.val
                             /\ pc' = "PullRequestGetter"
                             /\ UNCHANGED <<exc, exit_status>>
                        ELSE /\ Raise(size.exc)
                             /\ UNCHANGED mbedtls_2_16_size
    /\ UNCHANGED <<scenario, pulls, pulls_exists, mbedtls_pulls, restricted_pulls,
                   maxima, cur, k, norm_log, stdout>>

(***************************************************************************)
(* PullRequest.__init__ and PullRequestGetter.__init__                     *)
(***************************************************************************)
\* PullRequest.__init__ gone wrong: the number keeps the leading character.
\* C9 must reject it.
PullRequestInitKeepsPrefix(pr_num, repo_name, line) ==
    [repo_name |-> repo_name, number |-> pr_num, score |-> <<"None">>,
     line |-> line]

\* a new PullRequest; `line` is the position of its identifier in the file
PullRequestInit(pr_num, repo_name, line) ==
    [repo_name |-> repo_name,
     number |-> IF pr_num = <<>> THEN <<>> ELSE Tail(pr_num),
     score |-> None,
     line |-> line]

\* the loop over the lines of the pulls file, from line i on
RECURSIVE ParsePulls(_, _, _, _)
ParsePulls(lines, i, mbedtls, restricted) ==
    IF i > Len(lines)
    THEN [ok |-> TRUE, mbedtls |-> mbedtls, restricted |-> restricted]
    ELSE IF StartsWith(lines[i], <<"#">>)
    THEN ParsePulls(lines, i + 1,
                    Append(mbedtls, PullRequestInit(lines[i], "mbedtls", i)),
                    restricted)
    ELSE IF StartsWith(lines[i], <<"r">>)
    THEN ParsePulls(lines, i + 1, mbedtls,
                    Append(restricted,
                           PullRequestInit(lines[i], "mbedtls-restricted", i)))
    ELSE [ok |-> FALSE, exc |-> "ValueError"]

PullRequestGetterInit ==
    /\ pc = "PullRequestGetter"
    /\ IF ~pulls_exists
       THEN /\ Raise("FileNotFoundError")
            /\ UNCHANGED <<mbedtls_pulls, restricted_pulls>>
       ELSE LET parsed == ParsePulls(pulls, 1, <<>>, <<>>) IN
            IF parsed.ok
            THEN /\ mbedtls_pulls' = parsed.mbedtls
                 /\ restricted_pulls' = parsed.restricted
                 /\ pc' = "get_metrics"
                 /\ UNCHANGED <<exc, exit_status>>
            ELSE /\ Raise(parsed.exc)
                 /\ UNCHANGED <<mbedtls_pulls, restricted_pulls>>
    /\ UNCHANGED <<scenario, pulls, pulls_exists, mbedtls_2_16_size, maxima, cur,
                   k, norm_log, stdout, log>>

(***************************************************************************)
(* PullRequestGetter.get_metrics and get_metrics_by_repo: the records in   *)
(* the order the two loops visit them, as <<repository, index>>.           *)
(***************************************************************************)
\* get_metrics gone wrong: the restricted repository is never visited.
\* C1 must reject it.
GetMetricsOrderPrimaryOnly(mp, rp) == [i \in 1..Len(mp) |-> <<"mbedtls", i>>]

GetMetricsOrder(mp, rp) ==
    [i \in 1..Len(mp) |-> <<"mbedtls", i>>]
        \o [i \in 1..Len(rp) |-> <<"mbedtls-restricted", i>>]

Visits == GetMetricsOrder(mbedtls_pulls, restricted_pulls)

PullAt(visit) ==
    IF visit[1] = "mbedtls" THEN mbedtls_pulls[visit[2]]
    ELSE restricted_pulls[visit[2]]

\* the record under the cursor
CurPull == PullAt(Visits[cur.v])

\* assign record `pr` to the place `visit` names
SetPull(visit, pr) ==
    IF visit[1] = "mbedtls"
    THEN /\ mbedtls_pulls' = [mbedtls_pulls EXCEPT ![visit[2]] = pr]
         /\ UNCHANGED restricted_pulls
    ELSE /\ restricted_pulls' = [restricted_pulls EXCEPT ![visit[2]] = pr]
         /\ UNCHANGED mbedtls_pulls

ZeroMaxima ==
    [max_commits |-> 0, max_files_count |-> 0, max_lines_changed |-> 0,
     max_dev_diff |-> 0, max_bytes_saved |-> Size(0, 0)]

\* get_metrics up to the first pr.get_metrics() call
GetMetricsBegin ==
    /\ pc = "get_metrics"
    /\ cur.step = "none"
    /\ maxima' = ZeroMaxima
    /\ IF Len(Visits) = 0
       THEN /\ pc' = "normalise_metrics"
            /\ k' = 1
            /\ UNCHANGED cur
       ELSE /\ cur' = [NoCursor EXCEPT !.v = 1, !.step = "checkout"]
            /\ UNCHANGED <<pc, k>>
    /\ UNCHANGED <<scenario, pulls, pulls_exists, exc, exit_status,
                   mbedtls_2_16_size, mbedtls_pulls, restricted_pulls, norm_log,
                   stdout, log>>

(***************************************************************************)
(* PullRequest.get_metrics                                                 *)
(***************************************************************************)
\* gh pr checkout: the CalledProcessError is built and dropped, never raised
Checkout ==
    /\ pc = "get_metrics"
    /\ cur.step = "checkout"
    /\ \E rc \in ExitCodes(scenario) :
         log' = Append(log, Invocation(CurPull.line, "checkout", rc, <<>>))
    /\ cur' = [cur EXCEPT !.step = "view"]
    /\ UNCHANGED <<scenario, pulls, pulls_exists, pc, exc, exit_status,
                   mbedtls_2_16_size, mbedtls_pulls, restricted_pulls, maxima, k,
                   norm_log, stdout>>

\* the paths kept in self.files
KeptFiles(files) == SelectSeq(files, LAMBDA f : ~StartsWith(f, ChangeLogPrefix))

\* the attributes stored from the parsed metadata; `changed` keeps the
\* paths of metrics['files'] as they came
StoreMetrics(pr, metrics) ==
    LET p1 == SetAttr(pr, "commits_count", metrics.commits)
        p2 == SetAttr(p1, "files_count", metrics.changedFiles)
        p3 == SetAttr(p2, "lines_changed", metrics.additions + metrics.deletions)
        p4 == SetAttr(p3, "changed", metrics.files)
    IN  SetAttr(p4, "files", KeptFiles(metrics.files))

\* the step after the metadata or a diff: the next file, or the build
AfterFile(pr, j, total_add, total_del) ==
    IF j < Len(pr.files)
    THEN [pr |-> pr,
          cur |-> [cur EXCEPT !.step = "diff", !.j = j + 1,
                              !.total_add = total_add, !.total_del = total_del]]
    ELSE [pr |-> SetAttr(pr, "dev_diff", total_add + total_del),
          cur |-> [cur EXCEPT !.step = "build", !.j = 0,
                              !.total_add = 0, !.total_del = 0]]

\* gh pr view: the exit code is not read; output that is not JSON is printed
\* and exit() ends the process, with status 0
View ==
    /\ pc = "get_metrics"
    /\ cur.step = "view"
    /\ \E rc \in ExitCodes(scenario),
          out \in ViewOutputs(scenario, CurPull.number) :
         /\ log' = Append(log, Invocation(CurPull.line, "view", rc, <<>>))
         /\ IF ~out.json
            THEN /\ pc' = "raised"
                 /\ exc' = "SystemExit"
                 /\ exit_status' = 0
                 /\ UNCHANGED <<mbedtls_pulls, restricted_pulls, cur>>
            ELSE LET next == AfterFile(StoreMetrics(CurPull, out), 0, 0, 0) IN
                 /\ SetPull(Visits[cur.v], next.pr)
                 /\ cur' = next.cur
                 /\ UNCHANGED <<pc, exc, exit_status>>
    /\ UNCHANGED <<scenario, pulls, pulls_exists, mbedtls_2_16_size, maxima, k,
                   norm_log, stdout>>

\* one piece of the shortstat text split at commas: what it adds to the totals
RECURSIVE SumDiff(_, _, _, _)
SumDiff(diff, i, total_add, total_del) ==
    IF i > Len(diff)
    THEN [ok |-> TRUE, total_add |-> total_add, total_del |-> total_del]
    ELSE LET s == diff[i]
             digits == OnlyDigits(Strip(s))
         IN  IF s # <<>> /\ digits = <<>>
             THEN [ok |-> FALSE, exc |-> "ValueError"]
             ELSE LET number == IF s = <<>> THEN 0 ELSE DigitsValue(digits) IN
                  SumDiff(diff, i + 1,
                          IF EndsWith(s, <<"(", "+", ")">>)
                          THEN total_add + number ELSE total_add,
                          IF EndsWith(s, <<"(", "-", ")">>)
                          THEN total_del + number ELSE total_del)

\* git diff --shortstat for file cur.j of self.files
Diff ==
    /\ pc = "get_metrics"
    /\ cur.step = "diff"
    /\ LET f == CurPull.files[cur.j] IN
       \E rc \in ExitCodes(scenario), out \in DiffOutputs(scenario, f) :
         /\ log' = Append(log, Invocation(CurPull.line, "diff", rc, f))
         /\ IF rc # 0
            THEN /\ Raise("CalledProcessError")
                 /\ UNCHANGED <<mbedtls_pulls, restricted_pulls, cur>>
            ELSE LET sum == SumDiff(Split(out, ","), 1, cur.total_add,
                                    cur.total_del)
                 IN  IF ~sum.ok
                     THEN /\ Raise(sum.exc)
                          /\ UNCHANGED <<mbedtls_pulls, restricted_pulls, cur>>
                     ELSE LET next == AfterFile(CurPull, cur.j, sum.total_add,
                                                sum.total_del)
                          IN  /\ SetPull(Visits[cur.v], next.pr)
                              /\ cur' = next.cur
                              /\ UNCHANGED <<pc, exc, exit_status>>
    /\ UNCHANGED <<scenario, pulls, pulls_exists, mbedtls_2_16_size, maxima, k,
                   norm_log, stdout>>

\* the five running maxima after record pr
UpdateMaxima(m, pr) ==
    [max_commits |->
        IF pr.commits_count > m.max_commits THEN pr.commits_count
        ELSE m.max_commits,
     max_files_count |->
        IF pr.files_count > m.max_files_count THEN pr.files_count
        ELSE m.max_files_count,
     max_lines_changed |->
        IF pr.lines_changed > m.max_lines_changed THEN pr.lines_changed
        ELSE m.max_lines_changed,
     max_dev_diff |->
        IF pr.dev_diff > m.max_dev_diff THEN pr.dev_diff ELSE m.max_dev_diff,
     max_bytes_saved |->
        IF SizeGt(pr.bytes_saved, m.max_bytes_saved) THEN pr.bytes_saved
        ELSE m.max_bytes_saved]

\* get_baremetal_size for the pull request, bytes_saved, the maxima, and on
\* to the next record or out of get_metrics
BuildAndSize ==
    /\ pc = "get_metrics"
    /\ cur.step = "build"
    /\ \E rc_build \in ExitCodes(scenario),
          rc_size \in ExitCodes(scenario),
          size_out \in PullSizeOutputs(scenario, CurPull.number) :
         LET pr_size == GetBaremetalSize(rc_build, size_out)
             ran == <<Invocation(CurPull.line, "build", rc_build, <<>>)>>
                    \o (IF rc_build = 0
                        THEN <<Invocation(CurPull.line, "size", rc_size, <<>>)>>
                        ELSE <<>>)
         IN  /\ log' = log \o ran
             /\ IF ~pr_size.ok
                THEN /\ Raise(pr_size.exc)
                     /\ UNCHANGED <<mbedtls_pulls, restricted_pulls, maxima, cur, k>>
                ELSE LET pr == SetAttr(CurPull, "bytes_saved",
                                       SizeSub(mbedtls_2_16_size, pr_size.val))
                     IN  /\ SetPull(Visits[cur.v], pr)
                         /\ maxima' = UpdateMaxima(maxima, pr)
                         /\ IF cur.v < Len(Visits)
                            THEN /\ cur' = [cur EXCEPT !.v = cur.v + 1,
                                                       !.step = "checkout"]
                                 /\ UNCHANGED <<pc, k>>
                            ELSE /\ cur' = [cur EXCEPT !.step = "returned"]
                                 /\ pc' = "normalise_metrics"
                                 /\ k' = 1
                         /\ UNCHANGED <<exc, exit_status>>
    /\ UNCHANGED <<scenario, pulls, pulls_exists, mbedtls_2_16_size, norm_log,
                   stdout>>

(***************************************************************************)
(* normalise_metric, calculate_score and normalise_metrics                 *)
(***************************************************************************)
\* normalise_metric gone wrong: the quotient is taken upside down.
\* C5 must reject it.
NormaliseMetricInverted(pr_val, max_val) ==
    IF pr_val = 0 THEN [ok |-> FALSE, exc |-> ZeroDivision]
    ELSE [ok |-> TRUE, val |-> FracMul(Frac(max_val, pr_val), FracOfInt(100))]

\* (pr_val / max_val) * 100, or the ZeroDivisionError of a zero max_val
NormaliseMetric(pr_val, max_val) ==
    IF max_val = 0 THEN [ok |-> FALSE, exc |-> ZeroDivision]
    ELSE [ok |-> TRUE, val |-> FracMul(Frac(pr_val, max_val), FracOfInt(100))]

MetricKeys == <<"commits", "files_count", "lines_changed", "dev_diff", "bytes_saved">>

\* the five normalised values in the order normalise_metrics computes them
NormValues(pr, m) ==
    <<NormaliseMetric(pr.commits_count, m.max_commits),
      NormaliseMetric(pr.files_count, m.max_files_count),
      NormaliseMetric(pr.lines_changed, m.max_lines_changed),
      NormaliseMetric(pr.dev_diff, m.max_dev_diff),
      NormaliseMetric(SizeTotal(pr.bytes_saved), SizeTotal(m.max_bytes_saved))>>

\* the norm_metrics dictionary as far as it is filled: up to the first
\* division that raises
NormMetrics(pr, m) ==
    LET vals == NormValues(pr, m)
        filled == {i \in 1..5 : \A h \in 1..i : vals[h].ok}
    IN  [key \in {MetricKeys[i] : i \in filled} |->
            vals[CHOOSE i \in filled : MetricKeys[i] = key].val]

\* calculate_score gone wrong: the sum of the four metrics is not averaged.
\* C6 must reject it.
CalculateScoreBySum(norm_metrics) ==
    LET s == FracAdd(FracAdd(norm_metrics["commits"], norm_metrics["files_count"]),
                     FracAdd(norm_metrics["lines_changed"], norm_metrics["dev_diff"]))
    IN  IF FracIsZero(s) THEN [ok |-> FALSE, exc |-> ZeroDivision]
        ELSE [ok |-> TRUE, val |-> FracDiv(norm_metrics["bytes_saved"], s)]

\* norm_metrics['bytes_saved'] / (s / 4)
CalculateScore(norm_metrics) ==
    LET s == FracAdd(FracAdd(norm_metrics["commits"], norm_metrics["files_count"]),
                     FracAdd(norm_metrics["lines_changed"], norm_metrics["dev_diff"]))
        mean == FracDiv(s, FracOfInt(4))
    IN  IF FracIsZero(mean) THEN [ok |-> FALSE, exc |-> ZeroDivision]
        ELSE [ok |-> TRUE, val |-> FracDiv(norm_metrics["bytes_saved"], mean)]

\* self.mbedtls_pulls + self.restricted_pulls
AllPulls == mbedtls_pulls \o restricted_pulls

\* where record i of AllPulls is kept
PlaceOf(i) ==
    IF i <= Len(mbedtls_pulls) THEN <<"mbedtls", i>>
    ELSE <<"mbedtls-restricted", i - Len(mbedtls_pulls)>>

\* one turn of the loop of normalise_metrics
Normalise ==
    /\ pc = "normalise_metrics"
    /\ k <= Len(AllPulls)
    /\ LET pr == AllPulls[k] IN
       IF ~HasAttr(pr, "bytes_saved")
       THEN /\ Raise("AttributeError")
            /\ UNCHANGED <<mbedtls_pulls, restricted_pulls, k, norm_log>>
       ELSE LET norm_metrics == NormMetrics(pr, maxima) IN
            /\ norm_log' = Append(norm_log, norm_metrics)
            /\ IF DOMAIN norm_metrics # {MetricKeys[i] : i \in 1..5}
               THEN /\ Raise(ZeroDivision)
                    /\ UNCHANGED <<mbedtls_pulls, restricted_pulls, k>>
               ELSE LET score == CalculateScore(norm_metrics) IN
                    IF ~score.ok
                    THEN /\ Raise(score.exc)
                         /\ UNCHANGED <<mbedtls_pulls, restricted_pulls, k>>
                    ELSE /\ SetPull(PlaceOf(k), SetAttr(pr, "score", score.val))
                         /\ k' = k + 1
                         /\ pc' = IF k = Len(AllPulls) THEN "print_scores" ELSE pc
                         /\ UNCHANGED <<exc, exit_status>>
    /\ UNCHANGED <<scenario, pulls, pulls_exists, mbedtls_2_16_size, maxima, cur,
                   stdout, log>>

(***************************************************************************)
(* print_scores                                                            *)
(***************************************************************************)
\* the sort gone wrong: a record also passes those of equal score, as an
\* ascending sort read backwards does.  C7 must reject it.
SortsBeforeOrTies(x, y) == FracLe(y.score, x.score)

\* whether record x, met after y, is placed before y by
\* sorted(key=score, reverse=True): only when its score is greater
SortsBefore(x, y) == FracLt(y.score, x.score)

\* `sorted` with x put in
InsertByScore(sorted, x) ==
    LET behind == {i \in 1..Len(sorted) : SortsBefore(x, sorted[i])}
        at == IF behind = {} THEN Len(sorted) + 1
              ELSE CHOOSE i \in behind : \A h \in behind : i <= h
    IN  SubSeq(sorted, 1, at - 1) \o <<x>> \o SubSeq(sorted, at, Len(sorted))

RECURSIVE SortedPulls(_)
SortedPulls(all) ==
    IF all = <<>> THEN <<>>
    ELSE InsertByScore(SortedPulls(SubSeq(all, 1, Len(all) - 1)), all[Len(all)])

ScoreLine(pr) ==
    [repo_name |-> pr.repo_name, number |-> pr.number, score |-> pr.score,
     line |-> pr.line]

\* print_scores, and the return of main
PrintScores ==
    /\ pc = "print_scores"
    /\ LET sorted_pulls == SortedPulls(AllPulls) IN
       stdout' = [i \in 1..Len(sorted_pulls) |-> ScoreLine(sorted_pulls[i])]
    /\ pc' = "done"
    /\ exit_status' = 0
    /\ UNCHANGED <<scenario, pulls, pulls_exists, exc, mbedtls_2_16_size,
                   mbedtls_pulls, restricted_pulls, maxima, cur, k, norm_log, log>>

(***************************************************************************)
(* main                                                                    *)
(***************************************************************************)
Next ==
    \/ CheckArgs
    \/ CalculateBaseline
    \/ PullRequestGetterInit
    \/ GetMetricsBegin
    \/ Checkout
    \/ View
    \/ Diff
    \/ BuildAndSize
    \/ Normalise
    \/ PrintScores

Spec == Init /\ [][Next]_vars

(***************************************************************************)
(* Vocabulary of the properties.                                           *)
(***************************************************************************)
\* the phase of the run that the position in main() stands for
Phase ==
    CASE pc \in {"check_args", "calculate_mbedtls_2_16_size"} -> "Uninitialized"
      [] pc = "PullRequestGetter" -> "BaselineEstablished"
      [] pc = "get_metrics" -> "Collecting"
      [] pc = "normalise_metrics" -> "Normalizing"
      [] pc = "print_scores" -> "Reporting"
      [] pc = "done" -> "Done"
      [] OTHER -> "Aborted"

PhaseOrder ==
    <<"Uninitialized", "BaselineEstablished", "Collecting", "Normalizing",
      "Reporting", "Done">>

\* every attribute that get_metrics stores is there, and the size report of
\* the record's build was read
Collected(pr) ==
    /\ \A a \in {"commits_count", "files_count", "lines_changed", "files",
                 "dev_diff", "bytes_saved"} : HasAttr(pr, a)
    /\ \E i \in 1..Len(log) : log[i].line = pr.line /\ log[i].step = "size"

Scored(pr) == pr.score # None

\* normalise_metrics has begun
ScoringBegun ==
    \/ Phase \in {"Normalizing", "Reporting", "Done"}
    \/ norm_log # <<>>
    \/ \E i \in 1..Len(AllPulls) : Scored(AllPulls[i])

\* the steps of collection that call a tool
CollectionSteps == {"checkout", "view", "diff", "build", "size"}

(***************************************************************************)
(* C1.  The phases of a run follow one another in the order Uninitialized, *)
(* BaselineEstablished, Collecting, Normalizing, Reporting, Done, none     *)
(* skipped (a run that fails leaves the order for Aborted), and no score   *)
(* is computed before the metrics of every record of both partitions,      *)
(* one record per line of the pulls file, have been collected.             *)
(***************************************************************************)
C1_PhaseStep ==
    Phase' # Phase =>
        \/ \E i \in 1..5 : Phase = PhaseOrder[i] /\ Phase' = PhaseOrder[i + 1]
        \/ Phase # "Done" /\ Phase' = "Aborted"

C1_CollectedBeforeScoring ==
    ScoringBegun =>
        /\ Len(AllPulls) = Len(pulls)
        /\ \A i \in 1..Len(AllPulls) : Collected(AllPulls[i])

C1_PhasesInOrder == [][C1_PhaseStep]_vars /\ []C1_CollectedBeforeScoring

\* a run through every phase with records in both partitions
C1_Witness ==
    /\ Phase = "Done"
    /\ mbedtls_pulls # <<>>
    /\ restricted_pulls # <<>>
    /\ \A i \in 1..Len(AllPulls) : Scored(AllPulls[i])

(***************************************************************************)
(* C2.  When a tool invoked for a pull request (checkout, metadata query,  *)
(* per-file diff, build, size report) exits non-zero, the run aborts with  *)
(* a collection error: that invocation is the last one made, and no score  *)
(* is computed or printed.                                                 *)
(***************************************************************************)
C2_FailedStepAborts ==
    \A i \in 1..Len(log) :
        (log[i].line > 0 /\ log[i].step \in CollectionSteps /\ log[i].rc # 0) =>
            /\ i = Len(log)
            /\ pc = "raised"
            /\ exc = "CalledProcessError"
            /\ ~ScoringBegun
            /\ stdout = <<>>

(***************************************************************************)
(* Vocabulary of the scoring properties.                                   *)
(***************************************************************************)
\* the raw value of a record's metric
Raw(pr, key) ==
    CASE key = "commits" -> pr.commits_count
      [] key = "files_count" -> pr.files_count
      [] key = "lines_changed" -> pr.lines_changed
      [] key = "dev_diff" -> pr.dev_diff
      [] key = "bytes_saved" -> pr.bytes_saved.text + pr.bytes_saved.data

\* the maximum of a metric as collection tracked it
TrackedMax(key) ==
    CASE key = "commits" -> maxima.max_commits
      [] key = "files_count" -> maxima.max_files_count
      [] key = "lines_changed" -> maxima.max_lines_changed
      [] key = "dev_diff" -> maxima.max_dev_diff
      [] key = "bytes_saved" ->
           maxima.max_bytes_saved.text + maxima.max_bytes_saved.data

AllKeys == {MetricKeys[i] : i \in 1..5}

CostKeys == {MetricKeys[i] : i \in 1..4}

\* the largest raw value of a metric among the records of the batch
LargestRaw(key) ==
    CHOOSE m \in {Raw(AllPulls[i], key) : i \in 1..Len(AllPulls)} :
        \A i \in 1..Len(AllPulls) : Raw(AllPulls[i], key) <= m

\* collection returned, so that normalise_metrics was entered
CollectionReturned == cur.step = "returned"

\* normalise_metrics is over: it returned or it raised
NormaliseEnded == CollectionReturned /\ pc # "normalise_metrics"

(***************************************************************************)
(* C3.  Scoring a batch in which the maximum of one of the five metrics is *)
(* zero, or in which the four cost metrics of some record are all zero,    *)
(* ends in a ScoringError and in no other failure.                         *)
(***************************************************************************)
C3_ZeroRaisesScoringError ==
    (/\ NormaliseEnded
     /\ \/ \E key \in AllKeys : TrackedMax(key) = 0
        \/ \E i \in 1..Len(AllPulls) :
              \A key \in CostKeys : Raw(AllPulls[i], key) = 0)
    => (pc = "raised" /\ exc = "ScoringError")

(***************************************************************************)
(* C4.  Once normalise_metrics is over, by return or by exception, either  *)
(* every record of the batch has its score or none has.                    *)
(***************************************************************************)
C4_AllOrNothing ==
    NormaliseEnded =>
        \/ \A i \in 1..Len(AllPulls) : Scored(AllPulls[i])
        \/ \A i \in 1..Len(AllPulls) : ~Scored(AllPulls[i])

(***************************************************************************)
(* C5.  Every normalised value computed for a record whose raw value lies  *)
(* between 0 and the tracked maximum lies between 0 and 100, and the       *)
(* record with the largest raw value of the batch gets exactly 100.        *)
(***************************************************************************)
C5_NormalisedRange ==
    \A i \in 1..Len(norm_log) : \A key \in DOMAIN norm_log[i] :
        LET v == norm_log[i][key]
            raw == Raw(AllPulls[i], key)
        IN  /\ (0 <= raw /\ raw <= TrackedMax(key)) =>
                   (0 <= v[1] /\ v[1] <= 100 * v[2])
            /\ raw = LargestRaw(key) => v = <<100, 1>>

\* a batch scored to the end in which one record holds the maximum of a
\* metric and another lies strictly between 0 and it
C5_Witness ==
    /\ pc = "done"
    /\ \E i, h \in 1..Len(norm_log) : \E key \in AllKeys :
         /\ norm_log[i][key] = <<100, 1>>
         /\ 0 < norm_log[h][key][1]
         /\ norm_log[h][key][1] < 100 * norm_log[h][key][2]

(***************************************************************************)
(* C6.  The score of a record is its normalised bytes saved divided by the *)
(* mean of its four other normalised metrics, each normalised value being  *)
(* the raw value over the largest raw value of the batch, times 100.       *)
(* With b, c, f, l, d the record's raw values and B, C, F, L, D the        *)
(* largest of the batch, score = (b/B) / ((c/C + f/F + l/L + d/D) / 4),    *)
(* stated below without division.  For A (2, 3, 100, 50, 200) and          *)
(* B (4, 6, 200, 100, 100) the maxima are (4, 6, 200, 100, 200), A scores  *)
(* 2, B scores 1/2 and A is printed first.                                 *)
(***************************************************************************)
C6_ScoreOf(pr) ==
    LET b == Raw(pr, "bytes_saved")     B == LargestRaw("bytes_saved")
        c == Raw(pr, "commits")         C == LargestRaw("commits")
        f == Raw(pr, "files_count")     F == LargestRaw("files_count")
        l == Raw(pr, "lines_changed")   L == LargestRaw("lines_changed")
        d == Raw(pr, "dev_diff")        D == LargestRaw("dev_diff")
    IN  /\ pr.score[2] > 0
        /\ B # 0 /\ C # 0 /\ F # 0 /\ L # 0 /\ D # 0
        /\ pr.score[1] * (B * (c * F * L * D + f * C * L * D
                                + l * C * F * D + d * C * F * L))
             = pr.score[2] * (4 * b * C * F * L * D)

RawTuple(pr) == [i \in 1..5 |-> Raw(pr, MetricKeys[i])]

C6_Example ==
    (scenario = "example" /\ pc = "done") =>
        /\ RawTuple(restricted_pulls[1]) = <<2, 3, 100, 50, 200>>
        /\ RawTuple(mbedtls_pulls[1]) = <<4, 6, 200, 100, 100>>
        /\ [i \in 1..5 |-> TrackedMax(MetricKeys[i])] = <<4, 6, 200, 100, 200>>
        /\ norm_log = << [commits |-> <<100, 1>>, files_count |-> <<100, 1>>,
                          lines_changed |-> <<100, 1>>, dev_diff |-> <<100, 1>>,
                          bytes_saved |-> <<50, 1>>],
                         [commits |-> <<50, 1>>, files_count |-> <<50, 1>>,
                          lines_changed |-> <<50, 1>>, dev_diff |-> <<50, 1>>,
                          bytes_saved |-> <<100, 1>>] >>
        /\ restricted_pulls[1].score = <<2, 1>>
        /\ mbedtls_pulls[1].score = <<1, 2>>
        /\ [i \in 1..2 |-> stdout[i].number] = <<Tail(Id567), Tail(Id1234)>>

C6_ScoreFormula ==
    /\ \A i \in 1..Len(AllPulls) : Scored(AllPulls[i]) => C6_ScoreOf(AllPulls[i])
    /\ C6_Example

\* the example batch, scored and printed
C6_Witness ==
    /\ scenario = "example"
    /\ pc = "done"
    /\ Len(stdout) = 2

(***************************************************************************)
(* Vocabulary of the report properties.                                    *)
(***************************************************************************)
\* the report has one line for each line of the pulls file
ListsEveryRecordOnce ==
    /\ Len(stdout) = Len(pulls)
    /\ \A n \in 1..Len(pulls) : \E i \in 1..Len(stdout) : stdout[i].line = n
    /\ \A i \in 1..Len(stdout) :
         \E h \in 1..Len(AllPulls) : ScoreLine(AllPulls[h]) = stdout[i]

\* no line of the report has a greater score than a line above it
ScoresDescend ==
    \A i, j \in 1..Len(stdout) :
        i < j => stdout[j].score[1] * stdout[i].score[2]
                    <= stdout[i].score[1] * stdout[j].score[2]

\* the place in the batch, primary records first, of the record read from
\* line n of the pulls file
BatchPlace(n) == CHOOSE h \in 1..Len(AllPulls) : AllPulls[h].line = n

\* four records with the scores 10, 30, 30, 5, in this order
TiedScoresExample ==
    [i \in 1..4 |->
        [repo_name |-> "mbedtls", number |-> <<Digits[i + 1]>>, line |-> i,
         score |-> FracOfInt(<<10, 30, 30, 5>>[i])]]

(***************************************************************************)
(* C7, as claimed.  The report lists every record once, in non-increasing  *)
(* order of score, and records with equal scores in the order of their     *)
(* identifiers in the pulls file.                                          *)
(***************************************************************************)
C7_TiesInInputOrder ==
    pc = "done" =>
        /\ ListsEveryRecordOnce
        /\ ScoresDescend
        /\ \A i, j \in 1..Len(stdout) :
             (i < j /\ stdout[i].score = stdout[j].score) =>
                 stdout[i].line < stdout[j].line

(***************************************************************************)
(* C7, amended.  The report lists every record once, in non-increasing     *)
(* order of score, and records with equal scores in the order of the       *)
(* batch: the records of the primary partition in the order of the pulls   *)
(* file, then those of the restricted partition in the order of the pulls  *)
(* file.  Records with the scores 10, 30, 30, 5 are printed as the first   *)
(* 30, the second 30, the 10, the 5.                                       *)
(***************************************************************************)
C7_TiesInBatchOrder ==
    /\ pc = "done" =>
        /\ ListsEveryRecordOnce
        /\ ScoresDescend
        /\ \A i, j \in 1..Len(stdout) :
             (i < j /\ stdout[i].score = stdout[j].score) =>
                 BatchPlace(stdout[i].line) < BatchPlace(stdout[j].line)
    /\ LET sorted == SortedPulls(TiedScoresExample) IN
       [i \in 1..4 |-> sorted[i].line] = <<2, 3, 1, 4>>

\* a report in which two records tie, the restricted one read first from the
\* pulls file and printed second
C7_Witness ==
    /\ pc = "done"
    /\ \E i, j \in 1..Len(stdout) :
         /\ i < j
         /\ stdout[i].score = stdout[j].score
         /\ stdout[i].line > stdout[j].line
         /\ stdout[i].repo_name = "mbedtls"
         /\ stdout[j].repo_name = "mbedtls-restricted"

(***************************************************************************)
(* C8.  A changed file whose path begins with "ChangeLog" is left out of   *)
(* the record's file list, no diff is run for it, and it is not counted in *)
(* the file count that scoring uses.                                       *)
(***************************************************************************)
BeginsWithChangeLog(path) ==
    /\ Len(path) >= 9
    /\ [i \in 1..9 |-> path[i]] = <<"C", "h", "a", "n", "g", "e", "L", "o", "g">>

C8_ChangeLogExcluded ==
    \A h \in 1..Len(AllPulls) :
        LET pr == AllPulls[h] IN
        HasAttr(pr, "files") =>
            LET counted == {i \in 1..Len(pr.changed) :
                               ~BeginsWithChangeLog(pr.changed[i])}
            IN  /\ \A i \in 1..Len(pr.files) : ~BeginsWithChangeLog(pr.files[i])
                /\ \A i \in counted :
                     \E j \in 1..Len(pr.files) : pr.files[j] = pr.changed[i]
                /\ \A i \in 1..Len(log) :
                     (log[i].line = pr.line /\ log[i].step = "diff") =>
                         ~BeginsWithChangeLog(log[i].file)
                /\ pr.files_count = Cardinality(counted)

(***************************************************************************)
(* C9.  An identifier that begins with '#' becomes a record of the primary *)
(* partition and one that begins with 'r' a record of the restricted       *)
(* partition, its number the identifier without that first character; an   *)
(* identifier that begins otherwise is a fatal ValueError raised before    *)
(* the collection of any record, so that no tool is ever run for a record. *)
(***************************************************************************)
BeginsWith(id, c) == Len(id) >= 1 /\ id[1] = c

WellFormed(id) == BeginsWith(id, "#") \/ BeginsWith(id, "r")

\* the lines of the pulls file that begin with c, in order
LinesWith(c) ==
    LET picked == {n \in 1..Len(pulls) : BeginsWith(pulls[n], c)} IN
    [h \in 1..Cardinality(picked) |->
        CHOOSE n \in picked : Cardinality({m \in picked : m < n}) = h - 1]

\* partition `part` holds one record for each line that begins with c, in
\* order, numbered by the rest of the line
PartitionOf(part, c, repo) ==
    LET lines == LinesWith(c) IN
    /\ Len(part) = Len(lines)
    /\ \A h \in 1..Len(part) :
         /\ part[h].line = lines[h]
         /\ part[h].repo_name = repo
         /\ <<c>> \o part[h].number = pulls[lines[h]]

C9_Partitioning ==
    IF \A n \in 1..Len(pulls) : WellFormed(pulls[n])
    THEN Phase \in {"Collecting", "Normalizing", "Reporting", "Done"} =>
            /\ PartitionOf(mbedtls_pulls, "#", "mbedtls")
            /\ PartitionOf(restricted_pulls, "r", "mbedtls-restricted")
    ELSE /\ Phase \in {"Uninitialized", "BaselineEstablished", "Aborted"}
         /\ \A i \in 1..Len(log) : log[i].line = 0
         /\ AllPulls = <<>>
         /\ ~ScoringBegun
         /\ stdout = <<>>
         /\ (Phase = "Aborted" /\ pulls_exists /\ mbedtls_2_16_size # Size(0, 0))
                => (exc = "ValueError" /\ exit_status = 1)

\* "#1234" and "r567" read, partitioned and collected
C9_Witness ==
    /\ Phase = "Done"
    /\ \E h \in 1..Len(mbedtls_pulls) :
         /\ pulls[mbedtls_pulls[h].line] = Id1234
         /\ mbedtls_pulls[h].number = <<"1", "2", "3", "4">>
    /\ \E h \in 1..Len(restricted_pulls) :
         /\ pulls[restricted_pulls[h].line] = Id567
         /\ restricted_pulls[h].number = <<"5", "6", "7">>

\* an identifier that begins with neither character stopped the run
C9_WitnessRejected ==
    /\ \E n \in 1..Len(pulls) : ~WellFormed(pulls[n])
    /\ WellFormed(pulls[1])
    /\ exc = "ValueError"

(***************************************************************************)
(* C10.  When the output of the metadata query cannot be parsed, the run   *)
(* ends as a failure: an error or a non-zero exit status, the record not   *)
(* filled in, no later tool run, nothing scored or printed.                *)
(***************************************************************************)
C10_UnparseableMetadataFails ==
    (pc = "raised" /\ Len(log) > 0 /\ log[Len(log)].step = "view") =>
        /\ exit_status # 0
        /\ \A h \in 1..Len(AllPulls) :
             AllPulls[h].line = log[Len(log)].line =>
                 ~HasAttr(AllPulls[h], "commits_count")
        /\ ~ScoringBegun
        /\ stdout = <<>>

=============================================================================
